---- MODULE Spec2Model ----
(***************************************************************************)
(* Backup orchestration subsystem of brownie-metadata-database:            *)
(* BackupManager (src/backup/manager.py), the storage providers            *)
(* (src/backup/providers.py) and BackupScheduler (src/backup/scheduler.py).*)
(*                                                                         *)
(* The dump tool, the file system and the storage service are the          *)
(* environment: every outcome they can produce (exit code, timeout, an     *)
(* exception, a refused unlink) is an input drawn with \E.                 *)
(***************************************************************************)
EXTENDS Integers, Sequences, FiniteSets, TLC

(***************************************************************************)
(* Bounds of the model.                                                    *)
(***************************************************************************)
MaxSize == 1
MaxLoops == 2
MaxTime == 1
MaxAge == 3

(* The clock of the model counts days: 24 * 3600 seconds are one tick. *)
DayTicks == 1

VARIABLES
    config,            \* BackupConfig, loaded once
    now,               \* the wall clock, datetime.now()
    localFiles,        \* files of BackupManager.backup_dir (/tmp/backups)
    remote,            \* objects held by the storage backend
    lastResult,        \* what the last operation returned to its caller
    call,              \* history: what happened inside the last operation
    running,           \* BackupScheduler.running
    scheduler_thread,  \* BackupScheduler.scheduler_thread (0 is None)
    threads,           \* every loop thread ever started: id -> position
    jobs,              \* the job list of the schedule module (process wide)
    cycle,             \* history: outcome of the last scheduled cycle
    callers,           \* foreground threads inside start() / stop()
    launchedSinceStop, \* history: loops started since stop() last cleared
                       \* the running flag
    inflight,          \* threads inside create_backup: position and name
    entry,             \* the process: entry path, environment, exit code
    peer               \* a second BackupScheduler of the same process

mgrVars == <<localFiles, remote>>
schedVars == <<running, scheduler_thread, threads, jobs>>
schedState == <<running, scheduler_thread, threads, jobs, launchedSinceStop,
                cycle, callers>>
vars == <<config, now, localFiles, remote, lastResult, call,
          running, scheduler_thread, threads, jobs, cycle, callers,
          launchedSinceStop, inflight, entry, peer>>

(***************************************************************************)
(* Configuration (src/backup/config.py).                                   *)
(***************************************************************************)
Providers == {"local", "s3"}

(* enum BackupProvider: the four storage variants *)
AllProviders == {"local", "s3", "gcs", "azure"}

(* Cron strings as the five fields that str.split() yields. *)
DefaultSchedule == <<"0", "2", "*", "*", "*">>
Schedules == {DefaultSchedule,
              <<"*", "*", "*", "*", "1">>,
              <<"0", "*/6", "*", "*", "*">>}

(* The configurations of the manager's operations: the schedule is the     *)
(* default of BackupConfig.                                                *)
BackupConfig ==
    [provider : Providers,
     compression : BOOLEAN,
     verify_backup : {TRUE},
     retention_days : {1},
     schedule : {DefaultSchedule}]

(* The configurations of the scheduler: the defaults of BackupConfig under  *)
(* each provider and each schedule.                                         *)
SchedulerConfig ==
    [provider : Providers,
     compression : {TRUE},
     verify_backup : {TRUE},
     retention_days : {1},
     schedule : Schedules]

(***************************************************************************)
(* Files: a file system is a function from the paths that exist to the     *)
(* file's size, its number of gzip layers and the time of the database      *)
(* snapshot it holds; an object of the storage backend has its creation     *)
(* time too.                                                                *)
(***************************************************************************)
NoFiles == [p \in {} |-> [size |-> 0, gz |-> 0, snap |-> 0]]

Exists(fs, p) == p \in DOMAIN fs

WriteFile(fs, p, f) == [q \in DOMAIN fs \cup {p} |-> IF q = p THEN f ELSE fs[q]]

Unlink(fs, ps) == [q \in DOMAIN fs \ ps |-> fs[q]]

(***************************************************************************)
(* The result dictionaries.  keys is the set of keys of the dict; a field  *)
(* whose key is absent holds "" or -1.                                     *)
(***************************************************************************)
NoResult ==
    [op |-> "none", raised |-> FALSE, keys |-> {}, success |-> FALSE,
     backup_name |-> "", remote_path |-> "", size |-> -1, created |-> -1,
     error |-> "", list |-> <<>>, deleted_count |-> -1,
     total_backups |-> -1]

NoFile == [size |-> -1, gz |-> -1, snap |-> 0]

NoCall ==
    [op |-> "none", name |-> "", dump |-> "none", compress |-> "none",
     upload |-> "none", unlink_failed |-> FALSE, statRaised |-> FALSE,
     stuck |-> {}, at |-> 0, repeat |-> FALSE,
     download |-> "none", decompress |-> "none", psql |-> "none",
     handed |-> NoFile, verify |-> "none", listing |-> "none"]

(***************************************************************************)
(* BackupManager.create_backup and its helpers (src/backup/manager.py).    *)
(***************************************************************************)
DefaultName(t) == "brownie_metadata_" \o ToString(t)

BackupFile(backup_name) == backup_name \o ".sql"

CompressedFile(backup_name) == backup_name \o ".sql.gz"

(* the files that _cleanup_local_files is called with *)
WorkingFilesOf(backup_name) ==
    {BackupFile(backup_name), CompressedFile(backup_name)}

RemotePath(backup_name) ==
    IF config.compression THEN backup_name \o ".sql.gz"
                          ELSE backup_name \o ".sql"

(* What the environment can do to one create_backup call. *)
DumpOutcomes == {"ok", "nonzero", "timeout", "error"}

UploadOutcomes ==
    IF config.provider = "s3" THEN {"ok", "false", "raise"}
                              ELSE {"ok", "false"}

(* The outcomes of the steps of one call; a step that is not reached has   *)
(* its first outcome.                                                       *)
CreateEnv ==
    {e \in [dump : DumpOutcomes, partial : BOOLEAN, dsize : 1..MaxSize,
            compress : {"ok", "raise"}, upload : UploadOutcomes,
            verify : {"ok", "corrupt"}, unlink_ok : BOOLEAN] :
        /\ e.partial => e.dump \in {"nonzero", "timeout"}
        /\ e.dump # "ok" =>
               e.dsize = 1 /\ e.compress = "ok" /\ e.upload = "ok"
               /\ e.unlink_ok
        /\ ~config.compression => e.compress = "ok"
        /\ e.compress = "raise" => e.upload = "ok"
        /\ e.upload = "false" => e.unlink_ok
        /\ e.verify = "corrupt" =>
               /\ config.compression /\ config.verify_backup
               /\ e.dump = "ok" /\ e.compress = "ok" /\ e.upload = "ok"}

(* pg_dump -f output_file [-Z 9]: exit code 0 leaves the dump in            *)
(* output_file; a non-zero exit or a timeout may leave a partial file.      *)
CreateDatabaseDump(fs, output_file, t, e) ==
    IF e.dump = "ok"
    THEN [ok |-> TRUE,
          fs |-> WriteFile(fs, output_file,
                           [size |-> e.dsize,
                            gz |-> IF config.compression THEN 1 ELSE 0,
                            snap |-> t])]
    ELSE [ok |-> FALSE,
          fs |-> IF e.partial
                 THEN WriteFile(fs, output_file,
                                [size |-> 0, gz |-> 0, snap |-> t])
                 ELSE fs]

DumpSucceeded_Ignored(d) == TRUE

DumpSucceeded(d) == d.ok

(* _compress_file: open(input_file) raises on a missing input;             *)
(* gzip.open(output_file, 'wb') creates the output before the copy runs, so *)
(* a raising copy leaves a truncated output behind.                         *)
CompressFile(fs, input_file, output_file, t, e) ==
    IF ~Exists(fs, input_file)
    THEN [raised |-> TRUE, error |-> "[Errno 2] No such file or directory",
          fs |-> fs]
    ELSE IF e.compress = "ok"
    THEN [raised |-> FALSE, error |-> "",
          fs |-> WriteFile(fs, output_file,
                           [size |-> fs[input_file].size + 1,
                            gz |-> fs[input_file].gz + 1,
                            snap |-> fs[input_file].snap])]
    ELSE [raised |-> TRUE, error |-> "[Errno 28] No space left on device",
          fs |-> WriteFile(fs, output_file,
                           [size |-> 0, gz |-> 1,
                            snap |-> fs[input_file].snap])]

UploadBackup_NotStored(rem, fs, local_path, remote_path, t, e) ==
    IF ~Exists(fs, local_path)
    THEN [ret |-> IF config.provider = "s3" THEN "raise" ELSE "false",
          error |-> "[Errno 2] No such file or directory", remote |-> rem]
    ELSE IF e.upload = "ok"
    THEN [ret |-> "true", error |-> "", remote |-> rem]
    ELSE [ret |-> e.upload, error |-> "Failed to upload", remote |-> rem]

(* provider.upload_backup: the local, GCS and Azure providers turn every    *)
(* exception into False; the S3 provider catches ClientError only.          *)
UploadBackup(rem, fs, local_path, remote_path, t, e) ==
    IF ~Exists(fs, local_path)
    THEN [ret |-> IF config.provider = "s3" THEN "raise" ELSE "false",
          error |-> "[Errno 2] No such file or directory", remote |-> rem]
    ELSE IF e.upload = "ok"
    THEN [ret |-> "true", error |-> "",
          remote |-> WriteFile(rem, remote_path,
                               [size |-> fs[local_path].size,
                                gz |-> fs[local_path].gz,
                                snap |-> fs[local_path].snap,
                                ctime |-> t])]
    ELSE [ret |-> e.upload, error |-> "Failed to upload", remote |-> rem]

(* _verify_backup: False for a missing or empty file; a .gz file is also   *)
(* read through gzip, and a read that raises is caught and gives False.     *)
VerifyBackup(fs, backup_file, e) ==
    /\ Exists(fs, backup_file)
    /\ fs[backup_file].size # 0
    /\ config.compression => e.verify = "ok"

VerifyAborts_OnFailure(verify_success) == ~verify_success

(* "if not verify_success: print(Warning ...)": the call goes on *)
VerifyAborts(verify_success) == FALSE

(* _cleanup_local_files: unlink every file that exists; an unlink that the  *)
(* system refuses is logged and skipped.                                    *)
CleanupLocalFiles(fs, files, unlink_ok) ==
    IF unlink_ok THEN Unlink(fs, files) ELSE fs

GetBackupInfo_MissingIsEmpty(fs, backup_file, t) ==
    IF Exists(fs, backup_file)
    THEN [raised |-> FALSE, error |-> "",
          size |-> fs[backup_file].size, created |-> t]
    ELSE [raised |-> FALSE, error |-> "", size |-> 0, created |-> 0]

(* _get_backup_info: Path.stat() raises FileNotFoundError on a missing     *)
(* file. The file it is asked about was written by the same call, so its    *)
(* st_ctime is the time of the call.                                        *)
GetBackupInfo(fs, backup_file, t) ==
    IF Exists(fs, backup_file)
    THEN [raised |-> FALSE, error |-> "",
          size |-> fs[backup_file].size, created |-> t]
    ELSE [raised |-> TRUE, error |-> "[Errno 2] No such file or directory",
          size |-> -1, created |-> -1]

ErrorResult(op, error, backup_name) ==
    [NoResult EXCEPT !.op = op,
                     !.keys = {"success", "error", "backup_name"},
                     !.success = FALSE,
                     !.error = error,
                     !.backup_name = backup_name]

SuccessResult(backup_name, remote_path, info) ==
    [NoResult EXCEPT !.op = "create",
                     !.keys = {"success", "backup_name", "remote_path",
                               "size", "created", "provider"},
                     !.success = TRUE,
                     !.backup_name = backup_name,
                     !.remote_path = remote_path,
                     !.size = info.size,
                     !.created = info.created]

(* create_backup as a function of the state it reads and of what the        *)
(* environment does: the new local files, the new storage, the returned     *)
(* dict and a record of the steps taken.                                    *)
CreateBackup(fs, rem, t, name, e) ==
    LET backup_name == IF name = "" THEN DefaultName(t) ELSE name
        backup_file == BackupFile(backup_name)
        compressed_file == CompressedFile(backup_name)
        files == {backup_file, compressed_file}
        remote_path == RemotePath(backup_name)
        final_file == IF config.compression THEN compressed_file
                                            ELSE backup_file
        tr == [NoCall EXCEPT !.op = "create", !.name = backup_name,
                             !.dump = e.dump]
        d == CreateDatabaseDump(fs, backup_file, t, e)
        c == IF config.compression
             THEN CompressFile(d.fs, backup_file, compressed_file, t, e)
             ELSE [raised |-> FALSE, error |-> "", fs |-> d.fs]
        u == UploadBackup(rem, c.fs, final_file, remote_path, t, e)
        verify_success == VerifyBackup(c.fs, final_file, e)
        cleaned == CleanupLocalFiles(c.fs, files, e.unlink_ok)
        info == GetBackupInfo(cleaned, final_file, t)
        ctr == [tr EXCEPT !.compress = IF ~config.compression THEN "off"
                                       ELSE IF c.raised THEN "raise"
                                       ELSE "ok"]
        utr == [ctr EXCEPT !.upload = u.ret,
                           !.verify = IF u.ret # "true" THEN "none"
                                      ELSE IF ~config.verify_backup THEN "off"
                                      ELSE IF verify_success THEN "passed"
                                      ELSE "failed"]
        xtr(x) == [x EXCEPT !.unlink_failed = ~e.unlink_ok]
    IN  IF ~DumpSucceeded(d)
        THEN [local |-> d.fs, remote |-> rem, trace |-> tr,
              result |-> ErrorResult("create",
                                     "Failed to create database dump",
                                     backup_name)]
        ELSE IF c.raised
        THEN [local |-> CleanupLocalFiles(c.fs, files, e.unlink_ok),
              remote |-> rem, trace |-> xtr(ctr),
              result |-> ErrorResult("create", c.error, backup_name)]
        ELSE IF u.ret = "raise"
        THEN [local |-> CleanupLocalFiles(c.fs, files, e.unlink_ok),
              remote |-> u.remote, trace |-> xtr(utr),
              result |-> ErrorResult("create", u.error, backup_name)]
        ELSE IF u.ret = "false"
        THEN [local |-> c.fs, remote |-> u.remote, trace |-> utr,
              result |-> ErrorResult("create", "Failed to upload backup",
                                     backup_name)]
        ELSE IF config.verify_backup /\ VerifyAborts(verify_success)
        THEN [local |-> c.fs, remote |-> u.remote, trace |-> utr,
              result |-> ErrorResult("create", "Backup verification failed",
                                     backup_name)]
        ELSE IF info.raised
        THEN [local |-> CleanupLocalFiles(cleaned, files, e.unlink_ok),
              remote |-> u.remote,
              trace |-> xtr([utr EXCEPT !.statRaised = TRUE]),
              result |-> ErrorResult("create", info.error, backup_name)]
        ELSE [local |-> cleaned, remote |-> u.remote, trace |-> xtr(utr),
              result |-> SuccessResult(backup_name, remote_path, info)]

(***************************************************************************)
(* BackupManager.restore_backup and its helpers.                           *)
(***************************************************************************)
RestoreFile(backup_name) == "restore_" \o backup_name \o ".sql"

RestoreCompressedFile(backup_name) == "restore_" \o backup_name \o ".sql.gz"

DownloadOutcomes ==
    IF config.provider = "s3" THEN {"ok", "false", "raise"}
                              ELSE {"ok", "false"}

PsqlOutcomes == {"ok", "nonzero", "timeout"}

(* What the environment can do to one restore_backup call; a step that is  *)
(* not reached has its first outcome.                                       *)
RestoreEnv ==
    {e \in [download : DownloadOutcomes, dpartial : BOOLEAN,
            decompress : {"ok", "raise"}, psql : PsqlOutcomes,
            unlink_ok : BOOLEAN] :
        /\ e.dpartial => e.download = "false" /\ config.provider # "s3"
        /\ e.download # "ok" => e.decompress = "ok" /\ e.psql = "ok"
        /\ e.download = "false" => e.unlink_ok
        /\ ~config.compression => e.decompress = "ok"
        /\ e.decompress = "raise" => e.psql = "ok"
        /\ e.psql # "ok" => e.unlink_ok}

(* provider.download_backup: a missing object and a ClientError give False; *)
(* shutil.copy2 of the local provider can fail after it has created the     *)
(* destination; the S3 provider lets exceptions other than ClientError out. *)
DownloadBackup(rem, fs, remote_path, local_path, e) ==
    IF e.download = "raise"
    THEN [ret |-> "raise", error |-> "Failed to download", fs |-> fs]
    ELSE IF ~Exists(rem, remote_path)
    THEN [ret |-> "false", error |-> "", fs |-> fs]
    ELSE IF e.download = "ok"
    THEN [ret |-> "true", error |-> "",
          fs |-> WriteFile(fs, local_path,
                           [size |-> rem[remote_path].size,
                            gz |-> rem[remote_path].gz,
                            snap |-> rem[remote_path].snap])]
    ELSE [ret |-> "false", error |-> "",
          fs |-> IF e.dpartial
                 THEN WriteFile(fs, local_path,
                                [size |-> 0, gz |-> rem[remote_path].gz,
                                 snap |-> rem[remote_path].snap])
                 ELSE fs]

(* _decompress_file: gzip.open(input_file) raises on a missing file; the    *)
(* output is created before f_in.read() runs, and read() raises on input    *)
(* that is not gzip data. One gzip layer is removed.                        *)
DecompressFile(fs, input_file, output_file, e) ==
    IF ~Exists(fs, input_file)
    THEN [raised |-> TRUE, error |-> "[Errno 2] No such file or directory",
          fs |-> fs]
    ELSE IF fs[input_file].gz = 0 \/ e.decompress = "raise"
    THEN [raised |-> TRUE, error |-> "Not a gzipped file",
          fs |-> WriteFile(fs, output_file,
                           [size |-> 0, gz |-> 0,
                            snap |-> fs[input_file].snap])]
    ELSE [raised |-> FALSE, error |-> "",
          fs |-> WriteFile(fs, output_file,
                           [size |-> fs[input_file].size - 1,
                            gz |-> fs[input_file].gz - 1,
                            snap |-> fs[input_file].snap])]

(* _restore_database_dump: psql -f input_file; True on exit code 0, False   *)
(* on a non-zero exit, a timeout or any exception.                          *)
RestoreDatabaseDump(fs, input_file, e) ==
    Exists(fs, input_file) /\ e.psql = "ok"

RestoreError(error) ==
    [NoResult EXCEPT !.op = "restore",
                     !.keys = {"success", "error"},
                     !.success = FALSE,
                     !.error = error]

(* restore_backup as a function of the state it reads and of what the       *)
(* environment does.                                                        *)
RestoreBackup(fs, rem, backup_name, e) ==
    LET remote_path == RemotePath(backup_name)
        local_file == RestoreFile(backup_name)
        compressed_file == RestoreCompressedFile(backup_name)
        files == {local_file, compressed_file}
        tr == [NoCall EXCEPT !.op = "restore", !.name = backup_name]
        d == DownloadBackup(rem, fs, remote_path,
                            IF config.compression THEN compressed_file
                                                  ELSE local_file, e)
        dtr == [tr EXCEPT !.download = d.ret]
        c == IF config.compression
             THEN DecompressFile(d.fs, compressed_file, local_file, e)
             ELSE [raised |-> FALSE, error |-> "", fs |-> d.fs]
        ctr == [dtr EXCEPT !.decompress = IF ~config.compression THEN "off"
                                          ELSE IF c.raised THEN "raise"
                                          ELSE "ok"]
        ptr == [ctr EXCEPT !.psql = e.psql,
                           !.handed = IF Exists(c.fs, local_file)
                                      THEN c.fs[local_file] ELSE NoFile]
        xtr(x) == [x EXCEPT !.unlink_failed = ~e.unlink_ok]
    IN  IF d.ret = "raise"
        THEN [local |-> CleanupLocalFiles(d.fs, files, e.unlink_ok),
              trace |-> xtr(dtr), result |-> RestoreError(d.error)]
        ELSE IF d.ret = "false"
        THEN [local |-> d.fs, trace |-> dtr,
              result |-> RestoreError("Failed to download backup")]
        ELSE IF c.raised
        THEN [local |-> CleanupLocalFiles(c.fs, files, e.unlink_ok),
              trace |-> xtr(ctr), result |-> RestoreError(c.error)]
        ELSE IF ~RestoreDatabaseDump(c.fs, local_file, e)
        THEN [local |-> c.fs, trace |-> ptr,
              result |-> RestoreError("Failed to restore database")]
        ELSE [local |-> CleanupLocalFiles(c.fs, files, e.unlink_ok),
              trace |-> xtr(ptr),
              result |-> [NoResult EXCEPT !.op = "restore",
                                          !.keys = {"success", "backup_name",
                                                    "target_database"},
                                          !.success = TRUE,
                                          !.backup_name = backup_name]]

(***************************************************************************)
(* The storage providers (src/backup/providers.py) behind list_backups,    *)
(* delete_backup and cleanup_old_backups of BackupManager.                 *)
(***************************************************************************)
BackupRecordOf(rem, p) ==
    [name |-> p, path |-> p, size |-> rem[p].size, created |-> rem[p].ctime]

(* sorted(backups, key=created, reverse=True): newest first *)
RECURSIVE SortedBackups(_, _)
SortedBackups(rem, ps) ==
    IF ps = {} THEN <<>>
    ELSE LET p == CHOOSE q \in ps :
                      \A r \in ps : rem[r].ctime <= rem[q].ctime
         IN  <<BackupRecordOf(rem, p)>> \o SortedBackups(rem, ps \ {p})

ListOutcomes ==
    CASE config.provider = "local" -> {"ok", "raise"}
      [] config.provider = "s3" -> {"ok", "client_error", "raise"}
      [] OTHER -> {"ok", "client_error"}

(* provider.list_backups: the S3 provider swallows a ClientError and        *)
(* returns what it has collected, nothing; any other exception propagates.  *)
(* The GCS and Azure providers swallow every exception.                     *)
ProviderListBackups(rem, outcome) ==
    IF outcome = "ok"
    THEN [raised |-> FALSE, list |-> SortedBackups(rem, DOMAIN rem)]
    ELSE IF outcome = "client_error"
    THEN [raised |-> FALSE, list |-> <<>>]
    ELSE [raised |-> TRUE, list |-> <<>>]

(* provider.delete_backup: Path.unlink(), blob.delete() and delete_blob()   *)
(* raise on a missing object and the provider returns False; S3             *)
(* delete_object accepts a missing key.                                     *)
ProviderDeleteBackup(rem, remote_path, outcome) ==
    IF outcome # "ok"
    THEN [ok |-> FALSE, remote |-> rem]
    ELSE IF config.provider # "s3" /\ ~Exists(rem, remote_path)
    THEN [ok |-> FALSE, remote |-> rem]
    ELSE [ok |-> TRUE, remote |-> Unlink(rem, {remote_path})]

Expired(rem, t) ==
    {p \in DOMAIN rem : rem[p].ctime < t - config.retention_days * DayTicks}

(* LocalBackupProvider.cleanup_old_backups: unlink every expired file and   *)
(* count the unlinks that worked; stuck are the files whose unlink raises.  *)
LocalCleanupOldBackups(rem, t, stuck) ==
    LET deleted == Expired(rem, t) \ stuck
    IN  [raised |-> FALSE, error |-> "",
         deleted_count |-> Cardinality(deleted),
         remote |-> Unlink(rem, deleted)]

(* The first statement of cleanup_old_backups of the three cloud providers  *)
(* evaluates timedelta, a name providers.py never imports: NameError,       *)
(* raised outside the try block, before the objects are listed.             *)
TimedeltaNameError(rem) ==
    [raised |-> TRUE, error |-> "name 'timedelta' is not defined",
     deleted_count |-> -1, remote |-> rem]

S3CleanupOldBackups(rem, t, stuck) == TimedeltaNameError(rem)

GCSCleanupOldBackups(rem, t, stuck) == TimedeltaNameError(rem)

AzureCleanupOldBackups(rem, t, stuck) == TimedeltaNameError(rem)

(* provider.cleanup_old_backups of the provider that get_backup_provider    *)
(* chose                                                                    *)
ProviderCleanupOldBackups(rem, t, stuck) ==
    CASE config.provider = "s3" -> S3CleanupOldBackups(rem, t, stuck)
      [] config.provider = "gcs" -> GCSCleanupOldBackups(rem, t, stuck)
      [] config.provider = "azure" -> AzureCleanupOldBackups(rem, t, stuck)
      [] OTHER -> LocalCleanupOldBackups(rem, t, stuck)

(* BackupManager.cleanup_old_backups *)
CleanupOldBackups(rem, t, stuck) ==
    LET r == ProviderCleanupOldBackups(rem, t, stuck)
    IN  IF r.raised
        THEN [remote |-> r.remote,
              result |-> [NoResult EXCEPT !.op = "cleanup",
                                          !.keys = {"success", "error"},
                                          !.success = FALSE,
                                          !.error = r.error]]
        ELSE [remote |-> r.remote,
              result |-> [NoResult EXCEPT !.op = "cleanup",
                                          !.keys = {"success",
                                                    "deleted_count",
                                                    "message"},
                                          !.success = TRUE,
                                          !.deleted_count = r.deleted_count]]

(***************************************************************************)
(* Foreground operations on BackupManager.                                 *)
(***************************************************************************)
Names == {"", "t1"}

Callers == {1, 2}

(* The threads that call create_backup: the scheduler loop and a request   *)
(* handler (run_backup_now, POST /backup).                                 *)
Workers == {1, 2}

Idle == [pc |-> "idle", name |-> ""]

(* What validate() reads and the model's BackupConfig does not hold: the   *)
(* credentials (set or not), the destination and the two limits. The       *)
(* defaults of the dataclass, with credentials set.                        *)
DefaultSettings ==
    [access_key |-> TRUE, secret_key |-> TRUE, token |-> TRUE,
     destination |-> "/backups", parallel_jobs |-> 2, backup_timeout |-> 3600]

(* A process that has not been entered through main() of cli.py or main.py *)
NoEntry == [path |-> "none", pc |-> "start", settings |-> DefaultSettings,
            exit |-> -1]

(* No second scheduler *)
NoPeer == [running |-> FALSE, schedule |-> <<>>, thread |-> "none"]

(* The environment of a healthy create_backup call *)
HealthyEnv ==
    [dump |-> "ok", partial |-> FALSE, dsize |-> 1, compress |-> "ok",
     upload |-> "ok", verify |-> "ok", unlink_ok |-> TRUE]

(* The storage after create_backup() ran at each time of ts on earlier days *)
StoreOf(ts) ==
    [p \in {RemotePath(DefaultName(t)) : t \in ts} |->
        LET t == CHOOSE u \in ts : RemotePath(DefaultName(u)) = p
        IN  CreateBackup(NoFiles, NoFiles, t, "", HealthyEnv).remote[p]]

(* The storages that hold a daily backup for some of the last MaxAge days *)
DailyStores == {StoreOf({0 - a : a \in as}) : as \in SUBSET (0..MaxAge)}

(* The storage after create_backup("t1") ran yesterday *)
StoredYesterday == CreateBackup(NoFiles, NoFiles, 0 - 1, "t1", HealthyEnv).remote

(* A manager constructed on a storage that holds backups of earlier runs *)
Preloaded(configs, stores) ==
    /\ config \in configs
    /\ now = 0
    /\ localFiles = NoFiles
    /\ remote \in stores
    /\ lastResult = NoResult
    /\ call = NoCall
    /\ running = FALSE
    /\ scheduler_thread = 0
    /\ threads = <<>>
    /\ jobs = <<>>
    /\ cycle = [thread |-> 0, outcome |-> "none"]
    /\ callers = [c \in Callers |-> "idle"]
    /\ launchedSinceStop = 0
    /\ inflight = [w \in Workers |-> Idle]
    /\ entry = NoEntry
    /\ peer = NoPeer

Constructed(configs) ==
    /\ config \in configs
    /\ now = 0
    /\ localFiles = NoFiles
    /\ remote = NoFiles
    /\ lastResult = NoResult
    /\ call = NoCall
    /\ running = FALSE
    /\ scheduler_thread = 0
    /\ threads = <<>>
    /\ jobs = <<>>
    /\ cycle = [thread |-> 0, outcome |-> "none"]
    /\ callers = [c \in Callers |-> "idle"]
    /\ launchedSinceStop = 0
    /\ inflight = [w \in Workers |-> Idle]
    /\ entry = NoEntry
    /\ peer = NoPeer

Init == Constructed(BackupConfig)

CreateBackupCall ==
    \E name \in Names, e \in CreateEnv :
        LET r == CreateBackup(localFiles, remote, now, name, e)
        IN  /\ localFiles' = r.local
            /\ remote' = r.remote
            /\ lastResult' = r.result
            /\ call' = r.trace
            /\ UNCHANGED <<entry, peer, inflight, config, now, schedState>>

ListBackupsCall ==
    \E outcome \in ListOutcomes :
        LET r == ProviderListBackups(remote, outcome)
        IN  /\ lastResult' = [NoResult EXCEPT !.op = "list",
                                              !.raised = r.raised,
                                              !.list = r.list]
            /\ call' = [NoCall EXCEPT !.op = "list", !.listing = outcome]
            /\ UNCHANGED <<entry, peer, inflight, config, now, localFiles,
                           remote, schedState>>

(* BackupManager.delete_backup *)
DeleteBackup(rem, backup_name, outcome) ==
    LET r == ProviderDeleteBackup(rem, RemotePath(backup_name), outcome)
    IN  [remote |-> r.remote,
         result |-> IF r.ok
                    THEN [NoResult EXCEPT !.op = "delete",
                                          !.keys = {"success", "message"},
                                          !.success = TRUE]
                    ELSE [NoResult EXCEPT !.op = "delete",
                                          !.keys = {"success", "error"},
                                          !.success = FALSE,
                                          !.error = "Failed to delete backup"]]

DeleteBackupCall ==
    \E backup_name \in Names \ {""}, outcome \in {"ok", "fail"} :
        LET r == DeleteBackup(remote, backup_name, outcome)
        IN  /\ remote' = r.remote
            /\ lastResult' = r.result
            /\ call' = [NoCall EXCEPT !.op = "delete", !.name = backup_name]
            /\ UNCHANGED <<entry, peer, inflight, config, now, localFiles,
                           schedState>>

(* backups[:10] *)
FirstTen(backups) ==
    SubSeq(backups, 1, IF Len(backups) < 10 THEN Len(backups) ELSE 10)

(* BackupManager.get_backup_status: the status dict built from              *)
(* list_backups(), or the error dict when list_backups() raises             *)
GetBackupStatus(rem, outcome) ==
    LET r == ProviderListBackups(rem, outcome)
    IN  IF r.raised
        THEN [NoResult EXCEPT !.op = "status",
                              !.keys = {"error", "provider", "destination"},
                              !.error = "list_backups failed"]
        ELSE [NoResult EXCEPT !.op = "status",
                              !.keys = {"provider", "destination",
                                        "total_backups", "retention_days",
                                        "compression", "encryption",
                                        "last_backup", "backups"},
                              !.total_backups = Len(r.list),
                              !.list = FirstTen(r.list)]

GetBackupStatusCall ==
    \E outcome \in ListOutcomes :
        /\ lastResult' = GetBackupStatus(remote, outcome)
        /\ call' = [NoCall EXCEPT !.op = "status", !.listing = outcome]
        /\ UNCHANGED <<entry, peer, inflight, config, now, localFiles, remote,
                       schedState>>

(* cleanup_old_backups(); stuck are the expired objects that the storage    *)
(* refuses to delete during this call. The history records them, the time  *)
(* of the call, and whether the operation before it was a cleanup at the    *)
(* same time.                                                               *)
CleanupOldBackupsCall ==
    \E stuck \in SUBSET Expired(remote, now) :
        LET r == CleanupOldBackups(remote, now, stuck)
        IN  /\ remote' = r.remote
            /\ lastResult' = r.result
            /\ call' = [NoCall EXCEPT !.op = "cleanup",
                                      !.stuck = stuck,
                                      !.at = now,
                                      !.repeat = (call.op = "cleanup"
                                                  /\ call.at = now)]
            /\ UNCHANGED <<entry, peer, inflight, config, now, localFiles,
                           schedState>>

RestoreBackupCall ==
    \E backup_name \in Names \ {""}, e \in RestoreEnv :
        LET r == RestoreBackup(localFiles, remote, backup_name, e)
        IN  /\ localFiles' = r.local
            /\ lastResult' = r.result
            /\ call' = r.trace
            /\ UNCHANGED <<entry, peer, inflight, config, now, remote,
                           schedState>>

(* A day passes *)
Tick ==
    /\ now < MaxTime
    /\ now' = now + 1
    /\ UNCHANGED <<entry, peer, inflight, config, localFiles, remote,
                   lastResult, call, schedState>>

(***************************************************************************)
(* BackupScheduler (src/backup/scheduler.py).                              *)
(***************************************************************************)
TwoDigit(n) == IF n < 10 THEN "0" \o ToString(n) ELSE ToString(n)

(* str.zfill(2) *)
Zfill2(s) ==
    IF Len(s) = 0 THEN "00"
    ELSE IF Len(s) = 1 THEN (IF s \in {"+", "-"} THEN s \o "0" ELSE "0" \o s)
    ELSE s

(* Job.at of the schedule library accepts HH:MM with HH in 00..23 and MM in *)
(* 00..59 for a daily or weekly job and raises ScheduleValueError otherwise *)
ValidAt(hh, mm) ==
    /\ hh \in {TwoDigit(n) : n \in 0..23}
    /\ mm \in {TwoDigit(n) : n \in 0..59}

At(unit, start_day, hh, mm) ==
    IF ValidAt(hh, mm)
    THEN [raised |-> FALSE,
          job |-> [unit |-> unit, start_day |-> start_day,
                   at |-> hh \o ":" \o mm]]
    ELSE [raised |-> TRUE,
          job |-> [unit |-> unit, start_day |-> start_day, at |-> ""]]

WeekdayMap(weekday) ==
    CASE weekday = "0" -> "sunday"
      [] weekday = "1" -> "monday"
      [] weekday = "2" -> "tuesday"
      [] weekday = "3" -> "wednesday"
      [] weekday = "4" -> "thursday"
      [] weekday = "5" -> "friday"
      [] weekday = "6" -> "saturday"
      [] OTHER -> ""

(* _schedule_backup_job: the job that start() registers, or the exception   *)
(* it raises. parts is schedule_config.split().                            *)
ScheduleBackupJob(parts) ==
    IF Len(parts) # 5
    THEN [raised |-> TRUE,
          job |-> [unit |-> "", start_day |-> "", at |-> ""]]
    ELSE LET minute == parts[1]
             hour == parts[2]
             weekday == parts[5]
         IN  IF minute # "*" /\ hour # "*"
             THEN At("days", "", Zfill2(hour), Zfill2(minute))
             ELSE IF hour # "*"
             THEN At("days", "", Zfill2(hour), "00")
             ELSE IF weekday # "*" /\ WeekdayMap(weekday) # ""
             THEN At("weeks", WeekdayMap(weekday), "02", "00")
             ELSE At("days", "", "02", "00")

IsAlive(t) == t \in 1..Len(threads) /\ threads[t] # "done"

LiveLoops == {t \in 1..Len(threads) : threads[t] # "done"}

SchedResult(op, raised) == [NoResult EXCEPT !.op = op, !.raised = raised]

(* start(), run by one foreground thread without interference *)
Start ==
    /\ running \/ Len(threads) < MaxLoops
    /\ IF running
       THEN /\ lastResult' = SchedResult("start", FALSE)
            /\ UNCHANGED <<running, scheduler_thread, threads, jobs,
                           launchedSinceStop>>
       ELSE LET s == ScheduleBackupJob(config.schedule)
            IN  IF s.raised
                THEN /\ jobs' = <<>>
                     /\ lastResult' = SchedResult("start", TRUE)
                     /\ UNCHANGED <<running, scheduler_thread, threads,
                                    launchedSinceStop>>
                ELSE /\ jobs' = <<s.job>>
                     /\ running' = TRUE
                     /\ threads' = Append(threads, "check")
                     /\ scheduler_thread' = Len(threads) + 1
                     /\ launchedSinceStop' = launchedSinceStop + 1
                     /\ lastResult' = SchedResult("start", FALSE)
    /\ UNCHANGED <<entry, peer, inflight, config, now, localFiles, remote,
                   call, cycle, callers>>

(* scheduler_thread.join(timeout=5) while running is False: a loop about to *)
(* test the flag exits in time, a loop inside time.sleep(60) may or may not *)
(* wake in time, a loop inside a job goes on to sleep 60 seconds.           *)
JoinOutcomes(t) ==
    IF ~IsAlive(t) THEN {"none"}
    ELSE IF threads[t] = "check" THEN {"joined"}
    ELSE IF threads[t] = "sleep" THEN {"joined", "timeout"}
    ELSE {"timeout"}

(* stop(), run by one foreground thread without interference *)
Stop ==
    /\ lastResult' = SchedResult("stop", FALSE)
    /\ IF ~running
       THEN UNCHANGED <<running, scheduler_thread, threads, jobs,
                        launchedSinceStop>>
       ELSE /\ running' = FALSE
            /\ launchedSinceStop' = 0
            /\ \E j \in JoinOutcomes(scheduler_thread) :
                   threads' = IF j = "joined"
                              THEN [threads EXCEPT ![scheduler_thread] =
                                                       "done"]
                              ELSE threads
            /\ jobs' = <<>>
            /\ UNCHANGED scheduler_thread
    /\ UNCHANGED <<entry, peer, inflight, config, now, localFiles, remote,
                   call, cycle, callers>>

(***************************************************************************)
(* The background loop, _run_scheduler, one thread per successful start(). *)
(* A thread is about to test the flag ("check"), inside run_pending        *)
(* ("pending"), between the backup and the cleanup of _backup_job          *)
(* ("cleanup"), inside time.sleep(60) ("sleep") or has returned ("done").  *)
(***************************************************************************)
LoopContinues_Forever(flag) == TRUE

(* while self.running *)
LoopContinues(flag) == flag

AfterCycle_Crash(outcome) ==
    IF outcome \in {"failed", "exception", "cleanup_failed"} THEN "done"
                                                             ELSE "sleep"

(* Where the loop goes after a cycle: _backup_job catches every Exception   *)
(* and returns, run_pending returns and the loop sleeps.                    *)
AfterCycle(outcome) == "sleep"

LoopCheck(t) ==
    /\ t \in 1..Len(threads)
    /\ threads[t] = "check"
    /\ threads' = [threads EXCEPT ![t] = IF LoopContinues(running)
                                         THEN "pending" ELSE "done"]
    /\ UNCHANGED <<entry, peer, inflight, config, now, localFiles, remote,
                   lastResult, call,
                   running, scheduler_thread, jobs, cycle, callers,
                   launchedSinceStop>>

(* run_pending finds no job that is due *)
LoopNothingDue(t) ==
    /\ t \in 1..Len(threads)
    /\ threads[t] = "pending"
    /\ threads' = [threads EXCEPT ![t] = "sleep"]
    /\ UNCHANGED <<entry, peer, inflight, config, now, localFiles, remote,
                   lastResult, call,
                   running, scheduler_thread, jobs, cycle, callers,
                   launchedSinceStop>>

CleanupAfter_Always(result) == TRUE

(* if result["success"]: cleanup_old_backups() *)
CleanupAfter(result) == result.success

(* The outcomes of the steps of a scheduled create_backup; the size of the *)
(* dump plays no part in the scheduler.                                    *)
JobEnv == {e \in CreateEnv : e.dsize = 1}

(* run_pending runs _backup_job: create_backup() with the default name *)
LoopBackupJob(t) ==
    /\ t \in 1..Len(threads)
    /\ threads[t] = "pending"
    /\ jobs # <<>>
    /\ \E e \in JobEnv :
           LET r == CreateBackup(localFiles, remote, now, "", e)
               outcome == IF r.result.success THEN "created" ELSE "failed"
           IN  /\ localFiles' = r.local
               /\ remote' = r.remote
               /\ cycle' = [thread |-> t, outcome |-> outcome]
               /\ threads' = [threads EXCEPT ![t] =
                                  IF CleanupAfter(r.result) THEN "cleanup"
                                  ELSE AfterCycle(outcome)]
    /\ UNCHANGED <<entry, peer, inflight, config, now, lastResult, call,
                   running, scheduler_thread,
                   jobs, callers, launchedSinceStop>>

(* an exception inside the try block of _backup_job or around run_pending *)
LoopJobException(t) ==
    /\ t \in 1..Len(threads)
    /\ \/ threads[t] = "pending" /\ jobs # <<>>
       \/ threads[t] = "cleanup"
    /\ cycle' = [thread |-> t, outcome |-> "exception"]
    /\ threads' = [threads EXCEPT ![t] = AfterCycle("exception")]
    /\ UNCHANGED <<entry, peer, inflight, config, now, localFiles, remote,
                   lastResult, call,
                   running, scheduler_thread, jobs, callers,
                   launchedSinceStop>>

(* _backup_job after a successful backup: cleanup_old_backups() *)
LoopCleanup(t) ==
    /\ t \in 1..Len(threads)
    /\ threads[t] = "cleanup"
    /\ \E stuck \in SUBSET DOMAIN remote :
           LET r == CleanupOldBackups(remote, now, stuck)
               outcome == IF r.result.success THEN "cleaned"
                                              ELSE "cleanup_failed"
           IN  /\ remote' = r.remote
               /\ cycle' = [thread |-> t, outcome |-> outcome]
               /\ threads' = [threads EXCEPT ![t] = AfterCycle(outcome)]
    /\ UNCHANGED <<entry, peer, inflight, config, now, localFiles, lastResult,
                   call, running,
                   scheduler_thread, jobs, callers, launchedSinceStop>>

(* time.sleep(60) returns *)
LoopWake(t) ==
    /\ t \in 1..Len(threads)
    /\ threads[t] = "sleep"
    /\ threads' = [threads EXCEPT ![t] = "check"]
    /\ UNCHANGED <<entry, peer, inflight, config, now, localFiles, remote,
                   lastResult, call,
                   running, scheduler_thread, jobs, cycle, callers,
                   launchedSinceStop>>

LoopStep(t) ==
    \/ LoopCheck(t)
    \/ LoopNothingDue(t)
    \/ LoopBackupJob(t)
    \/ LoopJobException(t)
    \/ LoopCleanup(t)
    \/ LoopWake(t)

(***************************************************************************)
(* BackupManager driven by one foreground thread (CLI, HTTP handler): each *)
(* operation runs to its end before the next one starts.                   *)
(***************************************************************************)
Next ==
    \/ CreateBackupCall
    \/ ListBackupsCall
    \/ DeleteBackupCall
    \/ CleanupOldBackupsCall
    \/ GetBackupStatusCall

Spec == Init /\ [][Next]_vars

(***************************************************************************)
(* BackupScheduler driven by one foreground thread, with its loop threads. *)
(***************************************************************************)
SchedInit == Constructed(SchedulerConfig)

SchedNext ==
    \/ Start
    \/ Stop
    \/ \E t \in 1..MaxLoops : LoopStep(t)

SchedSpec == SchedInit /\ [][SchedNext]_vars

(* The threads of the loops are scheduled: a loop that can step does step. *)
FairSchedSpec == SchedSpec /\ \A t \in 1..MaxLoops : WF_vars(LoopStep(t))

(***************************************************************************)
(* Two BackupScheduler objects in one process (create_backup_scheduler,    *)
(* create_backup_router called twice): each has its own running flag and   *)
(* thread, and both use the one job list of the schedule module. The loop  *)
(* of the second scheduler is not stepped.                                 *)
(***************************************************************************)
NoJob == [unit |-> "", start_day |-> "", at |-> ""]

(* get_next_backup_time: the first job of the module's list stands for its *)
(* next_run; NoJob for None                                                *)
GetNextBackupTime(js) == IF js # <<>> THEN js[1] ELSE NoJob

WeeklySchedule == <<"*", "*", "*", "*", "1">>

PeerConfig ==
    [provider : {"local"},
     compression : {TRUE},
     verify_backup : {TRUE},
     retention_days : {1},
     schedule : {DefaultSchedule}]

PeerInit ==
    /\ config \in PeerConfig
    /\ now = 0
    /\ localFiles = NoFiles
    /\ remote = NoFiles
    /\ lastResult = NoResult
    /\ call = NoCall
    /\ running = FALSE
    /\ scheduler_thread = 0
    /\ threads = <<>>
    /\ jobs = <<>>
    /\ cycle = [thread |-> 0, outcome |-> "none"]
    /\ callers = [c \in Callers |-> "idle"]
    /\ launchedSinceStop = 0
    /\ inflight = [w \in Workers |-> Idle]
    /\ entry = NoEntry
    /\ peer \in {[NoPeer EXCEPT !.schedule = sc] :
                     sc \in {DefaultSchedule, WeeklySchedule}}

(* start() of the second scheduler *)
PeerStart ==
    /\ IF peer.running
       THEN /\ lastResult' = SchedResult("start", FALSE)
            /\ UNCHANGED <<peer, jobs>>
       ELSE LET s == ScheduleBackupJob(peer.schedule)
            IN  IF s.raised
                THEN /\ jobs' = <<>>
                     /\ lastResult' = SchedResult("start", TRUE)
                     /\ UNCHANGED peer
                ELSE /\ jobs' = <<s.job>>
                     /\ peer' = [peer EXCEPT !.running = TRUE,
                                             !.thread = "alive"]
                     /\ lastResult' = SchedResult("start", FALSE)
    /\ UNCHANGED <<config, now, localFiles, remote, call, running,
                   scheduler_thread, threads, launchedSinceStop, cycle,
                   callers, inflight, entry>>

(* stop() of the second scheduler; its join may time out *)
PeerStop ==
    /\ lastResult' = SchedResult("stop", FALSE)
    /\ IF ~peer.running
       THEN UNCHANGED <<peer, jobs>>
       ELSE /\ \E thread \in {"alive", "done"} :
                   peer' = [peer EXCEPT !.running = FALSE,
                                        !.thread = thread]
            /\ jobs' = <<>>
    /\ UNCHANGED <<config, now, localFiles, remote, call, running,
                   scheduler_thread, threads, launchedSinceStop, cycle,
                   callers, inflight, entry>>

PeerNext ==
    \/ Start
    \/ Stop
    \/ \E t \in 1..MaxLoops : LoopStep(t)
    \/ PeerStart
    \/ PeerStop

PeerSpec == PeerInit /\ [][PeerNext]_vars

(***************************************************************************)
(* The two entry paths of the process: main() of src/backup/cli.py, which  *)
(* runs one subcommand and exits, and the module body of src/main.py,      *)
(* which builds the /backup router and then serves requests.               *)
(***************************************************************************)
RetentionSettings == {0, 1}

ParallelJobsSettings == {0, 1}

TimeoutSettings == {59, 60}

EntryConfig ==
    [provider : AllProviders,
     compression : {TRUE},
     verify_backup : {TRUE},
     retention_days : RetentionSettings,
     schedule : {DefaultSchedule}]

(* The environment variables that from_env() reads; a credential that no   *)
(* branch of validate() reads for the provider is left set.                *)
Settings(provider) ==
    {st \in [access_key : BOOLEAN, secret_key : BOOLEAN, token : BOOLEAN,
             destination : {"", "/backups"},
             parallel_jobs : ParallelJobsSettings,
             backup_timeout : TimeoutSettings] :
        /\ provider \notin {"s3", "azure"} =>
               st.access_key /\ st.secret_key
        /\ provider # "gcs" => st.token
        /\ provider = "local" => st.destination = "/backups"}

(* BackupConfig.validate: the message of the ValueError it raises, or ""   *)
ValidationError(cfg, st) ==
    IF cfg.provider # "local" /\ st.destination = ""
    THEN "Backup destination is required for cloud providers"
    ELSE IF cfg.provider = "s3" /\ (~st.access_key \/ ~st.secret_key)
    THEN "S3 requires access_key and secret_key"
    ELSE IF cfg.provider = "gcs" /\ ~st.token
    THEN "GCS requires token (service account key)"
    ELSE IF cfg.provider = "azure" /\ (~st.access_key \/ ~st.secret_key)
    THEN "Azure requires access_key and secret_key"
    ELSE IF cfg.retention_days < 1
    THEN "Retention days must be at least 1"
    ELSE IF st.parallel_jobs < 1
    THEN "Parallel jobs must be at least 1"
    ELSE IF st.backup_timeout < 60
    THEN "Backup timeout must be at least 60 seconds"
    ELSE ""

EntryInit ==
    /\ config \in EntryConfig
    /\ now = 0
    /\ localFiles = NoFiles
    /\ remote \in {NoFiles, StoredYesterday}
    /\ lastResult = NoResult
    /\ call = NoCall
    /\ running = FALSE
    /\ scheduler_thread = 0
    /\ threads = <<>>
    /\ jobs = <<>>
    /\ cycle = [thread |-> 0, outcome |-> "none"]
    /\ callers = [c \in Callers |-> "idle"]
    /\ launchedSinceStop = 0
    /\ inflight = [w \in Workers |-> Idle]
    /\ entry \in {[path |-> path, pc |-> "start", settings |-> st,
                    exit |-> -1] :
                      path \in {"cli", "http"},
                      st \in Settings(config.provider)}
    /\ peer = NoPeer

(* main() of cli.py returns after the subcommand, exit code 0; an          *)
(* exception anywhere in its try block ends in sys.exit(1).                *)
MainExit(raised) ==
    [entry EXCEPT !.pc = "exited", !.exit = IF raised THEN 1 ELSE 0]

(* from_env(), validate() and BackupManager(config) at the top of main() *)
CliLoaded ==
    /\ entry.path = "cli"
    /\ entry.pc = "start"
    /\ ValidationError(config, entry.settings) = ""

(* validate() raises: main() prints the error and exits with code 1 *)
CliRejected ==
    /\ entry.path = "cli"
    /\ entry.pc = "start"
    /\ ValidationError(config, entry.settings) # ""
    /\ entry' = MainExit(TRUE)
    /\ UNCHANGED <<config, now, localFiles, remote, lastResult, call,
                   schedState, inflight, peer>>

(* backup [--name NAME] *)
CliBackup ==
    /\ CliLoaded
    /\ \E name \in Names, e \in CreateEnv :
           LET r == CreateBackup(localFiles, remote, now, name, e)
           IN  /\ localFiles' = r.local
               /\ remote' = r.remote
               /\ lastResult' = r.result
               /\ call' = r.trace
    /\ entry' = MainExit(FALSE)
    /\ UNCHANGED <<config, now, schedState, inflight, peer>>

(* restore NAME *)
CliRestore ==
    /\ CliLoaded
    /\ \E backup_name \in Names \ {""}, e \in RestoreEnv :
           LET r == RestoreBackup(localFiles, remote, backup_name, e)
           IN  /\ localFiles' = r.local
               /\ lastResult' = r.result
               /\ call' = r.trace
    /\ entry' = MainExit(FALSE)
    /\ UNCHANGED <<config, now, remote, schedState, inflight, peer>>

(* list: list_backups() has no exception handler of its own *)
CliList ==
    /\ CliLoaded
    /\ \E outcome \in ListOutcomes :
           LET r == ProviderListBackups(remote, outcome)
           IN  /\ lastResult' = [NoResult EXCEPT !.op = "list",
                                                 !.raised = r.raised,
                                                 !.list = r.list]
               /\ call' = [NoCall EXCEPT !.op = "list", !.listing = outcome]
               /\ entry' = MainExit(r.raised)
    /\ UNCHANGED <<config, now, localFiles, remote, schedState, inflight,
                   peer>>

(* delete NAME *)
CliDelete ==
    /\ CliLoaded
    /\ \E backup_name \in Names \ {""}, outcome \in {"ok", "fail"} :
           LET r == DeleteBackup(remote, backup_name, outcome)
           IN  /\ remote' = r.remote
               /\ lastResult' = r.result
               /\ call' = [NoCall EXCEPT !.op = "delete",
                                         !.name = backup_name]
    /\ entry' = MainExit(FALSE)
    /\ UNCHANGED <<config, now, localFiles, schedState, inflight, peer>>

(* cleanup *)
CliCleanup ==
    /\ CliLoaded
    /\ \E stuck \in SUBSET Expired(remote, now) :
           LET r == CleanupOldBackups(remote, now, stuck)
           IN  /\ remote' = r.remote
               /\ lastResult' = r.result
               /\ call' = [NoCall EXCEPT !.op = "cleanup", !.stuck = stuck,
                                         !.at = now]
    /\ entry' = MainExit(FALSE)
    /\ UNCHANGED <<config, now, localFiles, schedState, inflight, peer>>

(* status *)
CliStatus ==
    /\ CliLoaded
    /\ \E outcome \in ListOutcomes :
           /\ lastResult' = GetBackupStatus(remote, outcome)
           /\ call' = [NoCall EXCEPT !.op = "status", !.listing = outcome]
    /\ entry' = MainExit(FALSE)
    /\ UNCHANGED <<config, now, localFiles, remote, schedState, inflight,
                   peer>>

(* main.py: BackupConfig.from_env() and create_backup_router(config), which *)
(* builds the BackupManager and starts a BackupScheduler; an exception of   *)
(* start() ends the import of the module.                                   *)
HttpStartup ==
    /\ entry.path = "http"
    /\ entry.pc = "start"
    /\ LET s == ScheduleBackupJob(config.schedule)
       IN  IF s.raised
           THEN /\ jobs' = <<>>
                /\ entry' = [entry EXCEPT !.pc = "exited", !.exit = 1]
                /\ lastResult' = SchedResult("start", TRUE)
                /\ UNCHANGED <<running, scheduler_thread, threads,
                               launchedSinceStop>>
           ELSE /\ jobs' = <<s.job>>
                /\ running' = TRUE
                /\ threads' = Append(threads, "check")
                /\ scheduler_thread' = Len(threads) + 1
                /\ launchedSinceStop' = launchedSinceStop + 1
                /\ entry' = [entry EXCEPT !.pc = "serving"]
                /\ lastResult' = SchedResult("start", FALSE)
    /\ UNCHANGED <<config, now, localFiles, remote, call, cycle, callers,
                   inflight, peer>>

(* POST /backup/run-now: run_backup_now(), create_backup() with the        *)
(* default name                                                            *)
HttpRunNow ==
    /\ entry.path = "http"
    /\ entry.pc = "serving"
    /\ \E e \in JobEnv :
           LET r == CreateBackup(localFiles, remote, now, "", e)
           IN  /\ localFiles' = r.local
               /\ remote' = r.remote
               /\ lastResult' = r.result
               /\ call' = r.trace
    /\ UNCHANGED <<config, now, schedState, inflight, entry, peer>>

(* POST /backup/cleanup *)
HttpCleanup ==
    /\ entry.path = "http"
    /\ entry.pc = "serving"
    /\ \E stuck \in SUBSET Expired(remote, now) :
           LET r == CleanupOldBackups(remote, now, stuck)
           IN  /\ remote' = r.remote
               /\ lastResult' = r.result
               /\ call' = [NoCall EXCEPT !.op = "cleanup", !.stuck = stuck,
                                         !.at = now]
    /\ UNCHANGED <<config, now, localFiles, schedState, inflight, entry,
                   peer>>

EntryNext ==
    \/ CliRejected
    \/ CliBackup
    \/ CliRestore
    \/ CliList
    \/ CliDelete
    \/ CliCleanup
    \/ CliStatus
    \/ HttpStartup
    \/ HttpRunNow
    \/ HttpCleanup

EntrySpec == EntryInit /\ [][EntryNext]_vars

(***************************************************************************)
(* create_backup called from two threads at once: the manager takes no     *)
(* lock, so the threads interleave between the steps of the method. A      *)
(* thread has not called yet ("idle"), is before the dump ("dump"), before *)
(* the compression ("compress"), before the upload ("upload"), before the  *)
(* cleanup ("cleanup"), before _get_backup_info ("info"), or has returned  *)
(* ("returned"). Each thread makes one call.                               *)
(***************************************************************************)
Enter(w, pc) == inflight' = [inflight EXCEPT ![w].pc = pc]

Return(w, result) ==
    /\ inflight' = [inflight EXCEPT ![w].pc = "returned"]
    /\ lastResult' = result

(* backup_name, backup_file and compressed_file are computed *)
CreateBegin(w) ==
    /\ inflight[w].pc = "idle"
    /\ \E name \in Names :
           inflight' = [inflight EXCEPT ![w] =
                            [pc |-> "dump",
                             name |-> IF name = "" THEN DefaultName(now)
                                                   ELSE name]]
    /\ UNCHANGED <<entry, peer, config, now, localFiles, remote, lastResult,
                   call,
                   schedState>>

(* self._create_database_dump(backup_file) *)
CreateDump(w) ==
    /\ inflight[w].pc = "dump"
    /\ \E e \in CreateEnv :
           LET d == CreateDatabaseDump(localFiles,
                                       BackupFile(inflight[w].name), now, e)
           IN  /\ localFiles' = d.fs
               /\ IF DumpSucceeded(d)
                  THEN /\ Enter(w, IF config.compression THEN "compress"
                                                         ELSE "upload")
                       /\ UNCHANGED lastResult
                  ELSE Return(w, ErrorResult("create",
                                             "Failed to create database dump",
                                             inflight[w].name))
    /\ UNCHANGED <<entry, peer, config, now, remote, call, schedState>>

(* self._compress_file(backup_file, compressed_file); an exception goes to *)
(* the except branch, which cleans up and returns                          *)
CreateCompress(w) ==
    /\ inflight[w].pc = "compress"
    /\ \E e \in CreateEnv :
           LET name == inflight[w].name
               c == CompressFile(localFiles, BackupFile(name),
                                 CompressedFile(name), now, e)
           IN  IF c.raised
               THEN /\ localFiles' = CleanupLocalFiles(c.fs,
                                                       WorkingFilesOf(name),
                                                       e.unlink_ok)
                    /\ Return(w, ErrorResult("create", c.error, name))
               ELSE /\ localFiles' = c.fs
                    /\ Enter(w, "upload")
                    /\ UNCHANGED lastResult
    /\ UNCHANGED <<entry, peer, config, now, remote, call, schedState>>

(* self.provider.upload_backup(str(final_file), remote_path) *)
CreateUpload(w) ==
    /\ inflight[w].pc = "upload"
    /\ \E e \in CreateEnv :
           LET name == inflight[w].name
               final_file == IF config.compression THEN CompressedFile(name)
                                                   ELSE BackupFile(name)
               u == UploadBackup(remote, localFiles, final_file,
                                 RemotePath(name), now, e)
           IN  /\ remote' = u.remote
               /\ IF u.ret = "raise"
                  THEN /\ localFiles' = CleanupLocalFiles(
                                            localFiles, WorkingFilesOf(name),
                                            e.unlink_ok)
                       /\ Return(w, ErrorResult("create", u.error, name))
                  ELSE IF u.ret = "false"
                  THEN /\ Return(w, ErrorResult("create",
                                                "Failed to upload backup",
                                                name))
                       /\ UNCHANGED localFiles
                  ELSE /\ Enter(w, "cleanup")
                       /\ UNCHANGED <<localFiles, lastResult>>
    /\ UNCHANGED <<entry, peer, config, now, call, schedState>>

(* self._cleanup_local_files(backup_file, compressed_file) *)
CreateCleanup(w) ==
    /\ inflight[w].pc = "cleanup"
    /\ \E unlink_ok \in BOOLEAN :
           localFiles' = CleanupLocalFiles(localFiles,
                                           WorkingFilesOf(inflight[w].name),
                                           unlink_ok)
    /\ Enter(w, "info")
    /\ UNCHANGED <<entry, peer, config, now, remote, lastResult, call,
                   schedState>>

(* self._get_backup_info(final_file, remote_path) and the return *)
CreateInfo(w) ==
    /\ inflight[w].pc = "info"
    /\ \E unlink_ok \in BOOLEAN :
           LET name == inflight[w].name
               final_file == IF config.compression THEN CompressedFile(name)
                                                   ELSE BackupFile(name)
               info == GetBackupInfo(localFiles, final_file, now)
           IN  IF info.raised
               THEN /\ localFiles' = CleanupLocalFiles(
                                         localFiles, WorkingFilesOf(name),
                                         unlink_ok)
                    /\ Return(w, ErrorResult("create", info.error, name))
               ELSE /\ Return(w, SuccessResult(name, RemotePath(name), info))
                    /\ UNCHANGED localFiles
    /\ UNCHANGED <<entry, peer, config, now, remote, call, schedState>>

CreateStep(w) ==
    \/ CreateBegin(w)
    \/ CreateDump(w)
    \/ CreateCompress(w)
    \/ CreateUpload(w)
    \/ CreateCleanup(w)
    \/ CreateInfo(w)

ConcCreateNext == \E w \in Workers : CreateStep(w)

(* BackupConfig() with its default compression=True, under each provider *)
ConcCreateConfig ==
    [provider : Providers,
     compression : {TRUE},
     verify_backup : {TRUE},
     retention_days : {1},
     schedule : {DefaultSchedule}]

ConcCreateInit == Constructed(ConcCreateConfig)

ConcCreateSpec == ConcCreateInit /\ [][ConcCreateNext]_vars

(***************************************************************************)
(* Backups and restores by one foreground thread, on a storage that is     *)
(* empty or holds the backup "t1" of the day before.                       *)
(***************************************************************************)
RoundTripInit == Preloaded(BackupConfig, {NoFiles, StoredYesterday})

RoundTripNext ==
    \/ CreateBackupCall
    \/ RestoreBackupCall

RoundTripSpec == RoundTripInit /\ [][RoundTripNext]_vars

(***************************************************************************)
(* cleanup_old_backups under each storage variant and retention window, on *)
(* a storage that holds backups of earlier days, while the days pass.      *)
(***************************************************************************)
RetentionConfig ==
    [provider : AllProviders,
     compression : {TRUE},
     verify_backup : {TRUE},
     retention_days : {1, 2},
     schedule : {DefaultSchedule}]

RetentionInit == Preloaded(RetentionConfig, DailyStores)

RetentionNext ==
    \/ CleanupOldBackupsCall
    \/ Tick

RetentionSpec == RetentionInit /\ [][RetentionNext]_vars

(***************************************************************************)
(* The scheduler on a storage that already holds a backup older than the   *)
(* retention window.                                                       *)
(***************************************************************************)
CycleConfig ==
    [provider : Providers,
     compression : {TRUE},
     verify_backup : {TRUE},
     retention_days : {1},
     schedule : {DefaultSchedule}]

CycleInit == Preloaded(CycleConfig, {StoreOf({0 - MaxAge})})

CycleSpec == CycleInit /\ [][SchedNext]_vars

(* The loops of CycleSpec over the local directory, the provider whose     *)
(* cleanup can raise as well as return, under FairSchedSpec's fairness    *)
LocalCycleConfig == {c \in CycleConfig : c.provider = "local"}

LocalCycleInit == Preloaded(LocalCycleConfig, {StoreOf({0 - MaxAge})})

FairLocalSpec ==
    /\ LocalCycleInit /\ [][SchedNext]_vars
    /\ \A t \in 1..MaxLoops : WF_vars(LoopStep(t))


(***************************************************************************)
(* start() and stop() called from several foreground threads (HTTP         *)
(* handlers): the methods take no lock, so a thread can be preempted       *)
(* between any two accesses to running, scheduler_thread and the job list. *)
(***************************************************************************)
InStart(c) ==
    callers[c] \in {"start_check", "start_clear", "start_schedule",
                    "start_set", "start_thread"}

Goto(c, pc) == callers' = [callers EXCEPT ![c] = pc]

CallStart(c) ==
    /\ callers[c] = "idle"
    /\ Len(threads) + Cardinality({d \in Callers : InStart(d)}) < MaxLoops
    /\ Goto(c, "start_check")
    /\ UNCHANGED <<entry, peer, inflight, config, now, localFiles, remote,
                   lastResult, call,
                   running, scheduler_thread, threads, jobs, cycle,
                   launchedSinceStop>>

(* if self.running: return *)
StartCheck(c) ==
    /\ callers[c] = "start_check"
    /\ Goto(c, IF running THEN "idle" ELSE "start_clear")
    /\ lastResult' = IF running THEN SchedResult("start", FALSE)
                                ELSE lastResult
    /\ UNCHANGED <<entry, peer, inflight, config, now, localFiles, remote,
                   call, running,
                   scheduler_thread, threads, jobs, cycle,
                   launchedSinceStop>>

(* schedule.clear() *)
StartClear(c) ==
    /\ callers[c] = "start_clear"
    /\ jobs' = <<>>
    /\ Goto(c, "start_schedule")
    /\ UNCHANGED <<entry, peer, inflight, config, now, localFiles, remote,
                   lastResult, call,
                   running, scheduler_thread, threads, cycle,
                   launchedSinceStop>>

(* self._schedule_backup_job() *)
StartSchedule(c) ==
    /\ callers[c] = "start_schedule"
    /\ LET s == ScheduleBackupJob(config.schedule)
       IN  IF s.raised
           THEN /\ Goto(c, "idle")
                /\ lastResult' = SchedResult("start", TRUE)
                /\ UNCHANGED jobs
           ELSE /\ Goto(c, "start_set")
                /\ jobs' = Append(jobs, s.job)
                /\ UNCHANGED lastResult
    /\ UNCHANGED <<entry, peer, inflight, config, now, localFiles, remote,
                   call, running,
                   scheduler_thread, threads, cycle, launchedSinceStop>>

(* self.running = True *)
StartSetRunning(c) ==
    /\ callers[c] = "start_set"
    /\ running' = TRUE
    /\ Goto(c, "start_thread")
    /\ UNCHANGED <<entry, peer, inflight, config, now, localFiles, remote,
                   lastResult, call,
                   scheduler_thread, threads, jobs, cycle,
                   launchedSinceStop>>

(* self.scheduler_thread = threading.Thread(...); .start() *)
StartThread(c) ==
    /\ callers[c] = "start_thread"
    /\ threads' = Append(threads, "check")
    /\ scheduler_thread' = Len(threads) + 1
    /\ launchedSinceStop' = launchedSinceStop + 1
    /\ lastResult' = SchedResult("start", FALSE)
    /\ Goto(c, "idle")
    /\ UNCHANGED <<entry, peer, inflight, config, now, localFiles, remote,
                   call, running, jobs,
                   cycle>>

CallStop(c) ==
    /\ callers[c] = "idle"
    /\ Goto(c, "stop_check")
    /\ UNCHANGED <<entry, peer, inflight, config, now, localFiles, remote,
                   lastResult, call,
                   running, scheduler_thread, threads, jobs, cycle,
                   launchedSinceStop>>

(* if not self.running: return *)
StopCheck(c) ==
    /\ callers[c] = "stop_check"
    /\ Goto(c, IF running THEN "stop_set" ELSE "idle")
    /\ lastResult' = IF running THEN lastResult
                                ELSE SchedResult("stop", FALSE)
    /\ UNCHANGED <<entry, peer, inflight, config, now, localFiles, remote,
                   call, running,
                   scheduler_thread, threads, jobs, cycle,
                   launchedSinceStop>>

(* self.running = False *)
StopSetRunning(c) ==
    /\ callers[c] = "stop_set"
    /\ running' = FALSE
    /\ launchedSinceStop' = 0
    /\ Goto(c, "stop_join")
    /\ UNCHANGED <<entry, peer, inflight, config, now, localFiles, remote,
                   lastResult, call,
                   scheduler_thread, threads, jobs, cycle>>

(* scheduler_thread.join(timeout=5) returns: the thread has ended, or the   *)
(* five seconds are over.                                                   *)
StopJoin(c) ==
    /\ callers[c] = "stop_join"
    /\ Goto(c, "stop_clear")
    /\ UNCHANGED <<entry, peer, inflight, config, now, localFiles, remote,
                   lastResult, call,
                   running, scheduler_thread, threads, jobs, cycle,
                   launchedSinceStop>>

(* schedule.clear() *)
StopClear(c) ==
    /\ callers[c] = "stop_clear"
    /\ jobs' = <<>>
    /\ lastResult' = SchedResult("stop", FALSE)
    /\ Goto(c, "idle")
    /\ UNCHANGED <<entry, peer, inflight, config, now, localFiles, remote,
                   call, running,
                   scheduler_thread, threads, cycle, launchedSinceStop>>

CallerStep(c) ==
    \/ CallStart(c)
    \/ StartCheck(c)
    \/ StartClear(c)
    \/ StartSchedule(c)
    \/ StartSetRunning(c)
    \/ StartThread(c)
    \/ CallStop(c)
    \/ StopCheck(c)
    \/ StopSetRunning(c)
    \/ StopJoin(c)
    \/ StopClear(c)

(* The loop while no job is due *)
LoopPoll(t) ==
    \/ LoopCheck(t)
    \/ LoopNothingDue(t)
    \/ LoopWake(t)

ConcNext ==
    \/ \E c \in Callers : CallerStep(c)
    \/ \E t \in 1..MaxLoops : LoopPoll(t)

ConcSpec == SchedInit /\ [][ConcNext]_vars

(***************************************************************************)
(* Properties of create_backup.                                            *)
(***************************************************************************)
StepsSucceeded ==
    /\ call.op = "create"
    /\ call.dump = "ok"
    /\ call.compress \in {"ok", "off"}
    /\ call.upload = "true"

WorkingFiles(backup_name) ==
    {BackupFile(backup_name), CompressedFile(backup_name)}

(* C1: when the dump, the compression and the upload of a create_backup    *)
(* call all succeed, the call returns success=true with the size and the   *)
(* creation time of the file it uploaded.                                  *)
C1_SuccessWithMetadata ==
    StepsSucceeded =>
        /\ lastResult.success
        /\ lastResult.size = remote[RemotePath(call.name)].size
        /\ lastResult.created = remote[RemotePath(call.name)].ctime

(* C2: after a create_backup call none of the working files of that call   *)
(* (<name>.sql, <name>.sql.gz) is left in the working directory, whatever  *)
(* the exit path; stated here for the calls in which no unlink was refused.*)
C2_NoWorkingFileLeft ==
    (call.op = "create" /\ ~call.unlink_failed) =>
        WorkingFiles(call.name) \cap DOMAIN localFiles = {}

(* C3: with the local provider, createBackup("t1") in a working            *)
(* environment returns success=true, name "t1" and a positive size; a      *)
(* listing of a storage that holds only that backup has exactly one record,*)
(* named "t1"; after a successful deleteBackup the backup is gone.         *)
C3_LocalScenario ==
    config.provider = "local" =>
        /\ (StepsSucceeded /\ call.name = "t1" /\ ~call.unlink_failed) =>
               /\ lastResult.success
               /\ lastResult.backup_name = "t1"
               /\ lastResult.size > 0
        /\ (/\ lastResult.op = "list"
            /\ ~lastResult.raised
            /\ DOMAIN remote = {RemotePath("t1")}) =>
               /\ Len(lastResult.list) = 1
               /\ lastResult.list[1].name = "t1"
        /\ (lastResult.op = "delete" /\ lastResult.success) =>
               RemotePath(call.name) \notin DOMAIN remote

(* C4: every create_backup call returns, and returns one of two shapes:    *)
(* success=true with a non-empty name, a non-empty remote path and a       *)
(* positive size and no error, or success=false with a non-empty error and *)
(* no remote path or size.                                                 *)
C4_ResultShape ==
    lastResult.op = "create" =>
        /\ ~lastResult.raised
        /\ \/ /\ lastResult.success
              /\ lastResult.backup_name # ""
              /\ lastResult.remote_path # ""
              /\ lastResult.size > 0
              /\ "error" \notin lastResult.keys
              /\ lastResult.error = ""
           \/ /\ ~lastResult.success
              /\ "error" \in lastResult.keys
              /\ lastResult.error # ""
              /\ lastResult.keys \cap {"remote_path", "size"} = {}

C4_Witness ==
    /\ lastResult.op = "create"
    /\ lastResult.success
    /\ lastResult.size > 0

(* C5: a create_backup call whose dump step fails (non-zero exit, timeout) *)
(* never invokes the upload of the storage backend, and a listing after    *)
(* the call returns what a listing before it returned. (Every operation    *)
(* of the manager writes call, so a step into call.op = "create" is a      *)
(* create_backup call.)                                                    *)
C5_DumpFailureIsolated ==
    [][(call'.op = "create" /\ call'.dump # "ok") =>
           /\ call'.upload = "none"
           /\ ~lastResult'.success
           /\ ProviderListBackups(remote', "ok")
                  = ProviderListBackups(remote, "ok")]_vars

C5_Witness ==
    /\ call.op = "create"
    /\ call.dump \in {"nonzero", "timeout"}
    /\ DOMAIN remote # {}

(***************************************************************************)
(* Properties of the scheduler.                                            *)
(***************************************************************************)
FailedOutcomes == {"failed", "exception", "cleanup_failed"}

(* C6: while the scheduler is Running at most one loop thread is alive.    *)
C6_SingleLoop == running => Cardinality(LiveLoops) <= 1

(* C7: start() on a Stopped scheduler sets running=true and launches one   *)
(* loop; start() on a Running scheduler changes nothing.                   *)
C7_StartIdempotent ==
    [][Start =>
           IF running
           THEN UNCHANGED <<running, scheduler_thread, threads, jobs>>
           ELSE /\ running'
                /\ Len(threads') = Len(threads) + 1
                /\ ~lastResult'.raised]_vars

(* C8: stop() on a Running scheduler clears the running flag, and every    *)
(* loop then exits unless a start() sets the flag again; stop() on a       *)
(* Stopped scheduler changes nothing; stop() never raises.                 *)
C8_StopEndsLoop ==
    /\ [][Stop => (~running' /\ ~lastResult'.raised)]_vars
    /\ [][(Stop /\ ~running) =>
              UNCHANGED <<running, scheduler_thread, threads, jobs>>]_vars
    /\ (~running ~> (LiveLoops = {} \/ running))

C8_Witness ==
    /\ lastResult.op = "stop"
    /\ ~running
    /\ LiveLoops # {}

(* C9: start() calls that run concurrently on a Stopped scheduler launch   *)
(* one loop: no second loop is started before a stop() clears the flag.    *)
C9_OneLoopPerStart == launchedSinceStop <= 1

C11_CleanupOnlyAfterSuccess ==
    [][/\ \A t \in 1..Len(threads) :
              /\ (threads'[t] = "cleanup" /\ threads[t] # "cleanup") =>
                     /\ threads[t] = "pending"
                     /\ cycle' = [thread |-> t, outcome |-> "created"]
              /\ (/\ threads[t] = "pending"
                  /\ threads'[t] # "pending"
                  /\ cycle'.thread = t
                  /\ cycle'.outcome = "created") =>
                     threads'[t] = "cleanup"
              /\ (/\ threads[t] = "pending"
                  /\ threads'[t] # "pending"
                  /\ cycle'.thread = t
                  /\ cycle'.outcome = "failed") =>
                     /\ threads'[t] = "sleep"
                     /\ DOMAIN remote \subseteq DOMAIN remote'
       /\ ~(DOMAIN remote \subseteq DOMAIN remote') =>
              \E t \in 1..Len(threads) :
                  /\ threads[t] = "cleanup"
                  /\ threads'[t] = "sleep"
                  /\ cycle' = [thread |-> t, outcome |-> "cleaned"]]_vars

C11_Witness ==
    /\ cycle.outcome = "cleaned"
    /\ RemotePath(DefaultName(0 - MaxAge)) \notin DOMAIN remote
    /\ RemotePath(DefaultName(0)) \in DOMAIN remote

(***************************************************************************)
(* Properties of the retention cleanup.                                    *)
(***************************************************************************)
Cutoff == now - config.retention_days * DayTicks

Kept == {p \in DOMAIN remote : remote[p].ctime >= Cutoff}

Ages(rem) == {now - rem[p].ctime : p \in DOMAIN rem}

(* C12: a cleanup in which no delete is refused deletes exactly the        *)
(* records created strictly before now - retention_days and returns their  *)
(* number: a record created exactly at now - retention_days is kept, one    *)
(* created one tick earlier is deleted; with a retention of 2 days and      *)
(* records of today, yesterday and 3 days ago only the 3-day-old record is *)
(* deleted and the count is 1.                                             *)
C12_StrictRetention ==
    [][(call'.op = "cleanup" /\ call'.stuck = {} /\ now' = now) =>
           /\ lastResult'.success
           /\ DOMAIN remote' = Kept
           /\ \A p \in Kept : remote'[p] = remote[p]
           /\ lastResult'.deleted_count = Cardinality(DOMAIN remote \ Kept)
           /\ (config.retention_days = 2 /\ Ages(remote) = {0, 1, 3}) =>
                  /\ Ages(remote') = {0, 1}
                  /\ lastResult'.deleted_count = 1]_vars

(* C13: a cleanup_old_backups() that directly follows another one, with no *)
(* backup created and no day passed in between, returns deleted_count = 0. *)
C13_SecondCleanupDeletesNothing ==
    (call.op = "cleanup" /\ call.repeat) => lastResult.deleted_count = 0

(* C14: when the storage refuses to delete some expired object during a    *)
(* cleanup, the cleanup still deletes every other expired object, does not *)
(* raise or fail, and returns the number of objects it deleted.            *)
C14_CleanupSurvivesDeleteFailure ==
    [][(call'.op = "cleanup" /\ call'.stuck # {} /\ now' = now) =>
           /\ ~lastResult'.raised
           /\ lastResult'.success
           /\ DOMAIN remote' = Kept \cup call'.stuck
           /\ lastResult'.deleted_count
                  = Cardinality(DOMAIN remote \ DOMAIN remote')]_vars

(* C15: on the same stored objects and with the same retention window,     *)
(* cleanup_old_backups deletes under every storage variant the objects     *)
(* that the Local variant deletes, and BackupManager.cleanup_old_backups   *)
(* returns success=true with the count of the Local variant.               *)
C15_VariantsAgree ==
    [][(call'.op = "cleanup" /\ now' = now) =>
           LET l == LocalCleanupOldBackups(remote, now, call'.stuck)
           IN  /\ remote' = l.remote
               /\ lastResult'.success
               /\ lastResult'.deleted_count = l.deleted_count]_vars

(***************************************************************************)
(* Properties of restore_backup and of stored backups.                     *)
(***************************************************************************)
RestoreScratchFiles(backup_name) ==
    {RestoreFile(backup_name), RestoreCompressedFile(backup_name)}

(* C16: restore_backup("X") right after a create_backup("X") whose dump,   *)
(* compression and upload succeeded, with a download, a decompression and  *)
(* a restore tool that work, returns success=true and hands the restore    *)
(* tool the plain dump that the backup took: no gzip layer left, the       *)
(* snapshot of the time of the backup.                                     *)
C16_RoundTrip ==
    [][(/\ StepsSucceeded
        /\ call'.op = "restore"
        /\ call'.name = call.name
        /\ call'.download = "true"
        /\ call'.decompress \in {"ok", "off"}
        /\ call'.psql = "ok") =>
           /\ lastResult'.success
           /\ call'.handed.gz = 0
           /\ call'.handed.size > 0
           /\ call'.handed.snap = now]_vars

(* C17: after a restore_backup call none of the scratch files of that call *)
(* (restore_<name>.sql, restore_<name>.sql.gz) is left, whatever the exit   *)
(* path; stated here for the calls in which no unlink was refused.          *)
C17_NoScratchFileLeft ==
    (call.op = "restore" /\ ~call.unlink_failed) =>
        RestoreScratchFiles(call.name) \cap DOMAIN localFiles = {}

(* C20: create_backup never changes an object that is already stored: an   *)
(* object in the storage before the call is there after it, with the same  *)
(* content and creation time.                                              *)
C20_StoredBackupImmutable ==
    [][call'.op = "create" =>
           \A p \in DOMAIN remote :
               p \in DOMAIN remote' /\ remote'[p] = remote[p]]_vars

InCreateBackup(w) == inflight[w].pc \notin {"idle", "returned"}

(* C18: two create_backup calls that run at the same time use distinct     *)
(* local working files: no path is the dump file or the compressed file of *)
(* both.                                                                   *)
C18_DistinctWorkingFiles ==
    \A v, w \in Workers :
        (v # w /\ InCreateBackup(v) /\ InCreateBackup(w)) =>
            WorkingFilesOf(inflight[v].name)
                \cap WorkingFilesOf(inflight[w].name) = {}

C21_VerificationAdvisory ==
    \A name \in Names, e \in CreateEnv :
        e.verify = "corrupt" =>
            LET failing == CreateBackup(localFiles, remote, now, name, e)
                passing == CreateBackup(localFiles, remote, now, name,
                                        [e EXCEPT !.verify = "ok"])
            IN  /\ failing.trace.verify = "failed"
                /\ passing.trace.verify = "passed"
                /\ failing.result = passing.result
                /\ failing.remote = passing.remote
                /\ failing.local = passing.local

C21_Witness ==
    /\ call.op = "create"
    /\ call.verify = "failed"
    /\ lastResult.success

(* C22: no operation of BackupManager raises to its caller.                *)
C22_OperationsNeverRaise ==
    lastResult.op \in {"create", "list", "delete", "cleanup"} =>
        ~lastResult.raised

(* C23: get_backup_status does not raise, and when the storage backend     *)
(* failed during the call the dict it returns has an error, the provider   *)
(* and the destination and neither the backup count nor the records.       *)
C23_StatusDegradesToError ==
    lastResult.op = "status" =>
        /\ ~lastResult.raised
        /\ call.listing # "ok" =>
               /\ {"error", "provider", "destination"} \subseteq lastResult.keys
               /\ lastResult.keys \cap {"total_backups", "backups"} = {}

(* C24: no operation of BackupManager or BackupScheduler runs in a process *)
(* whose configuration validate() rejects: once an operation has run or    *)
(* the scheduler is running, the loaded configuration is valid.            *)
C24_NoOperationOnInvalidConfig ==
    (call.op # "none" \/ running) =>
        ValidationError(config, entry.settings) = ""

ResultCommands == {"create", "restore", "delete", "cleanup"}

(* C25: a CLI process exits with code 0 when its subcommand succeeded and  *)
(* with code 1 when validation or the subcommand raised or the result of   *)
(* the subcommand has success=false.                                       *)
C25_ExitCodeTellsSuccess ==
    (entry.path = "cli" /\ entry.pc = "exited") =>
        LET succeeded ==
                /\ call.op # "none"
                /\ ~lastResult.raised
                /\ call.op \in ResultCommands => lastResult.success
        IN  entry.exit = IF succeeded THEN 0 ELSE 1

(* C26: delete_backup of a name that has no object in the storage returns  *)
(* success=false with an error and leaves the storage as it was, every     *)
(* time it is called.                                                      *)
C26_DeleteMissingFails ==
    [][(call'.op = "delete" /\ ~Exists(remote, RemotePath(call'.name))) =>
           /\ ~lastResult'.raised
           /\ ~lastResult'.success
           /\ "error" \in lastResult'.keys
           /\ remote' = remote]_vars

Numeric(field) == field \in {ToString(n) : n \in 0..59}

DailyAt(hh, mm) == [unit |-> "days", start_day |-> "", at |-> hh \o ":" \o mm]

(* The job that a cron string is said to give *)
ClaimedJob(parts) ==
    LET minute == parts[1]
        hour == parts[2]
        weekday == parts[5]
    IN  IF Numeric(minute) /\ Numeric(hour)
        THEN DailyAt(Zfill2(hour), Zfill2(minute))
        ELSE IF minute = "*" /\ Numeric(hour)
        THEN DailyAt(Zfill2(hour), "00")
        ELSE IF minute = "*" /\ hour = "*" /\ WeekdayMap(weekday) # ""
        THEN [unit |-> "weeks", start_day |-> WeekdayMap(weekday),
              at |-> "02:00"]
        ELSE DailyAt("02", "00")

(* C27: start() on a stopped scheduler with a 5-field cron string does not *)
(* fail and registers exactly the job the string stands for, the daily     *)
(* 02:00 default included.                                                 *)
C27_EveryCronSchedules ==
    [][(lastResult'.op = "start" /\ ~running /\ Len(config.schedule) = 5) =>
           /\ ~lastResult'.raised
           /\ running'
           /\ jobs' = <<ClaimedJob(config.schedule)>>]_vars

(* C28: a create_backup call that returns success=false has added no       *)
(* object to the storage: a listing after the call is the listing before   *)
(* it.                                                                     *)
C28_FailedCreateAddsNothing ==
    [][(call'.op = "create" /\ ~lastResult'.success) =>
           ProviderListBackups(remote', "ok")
               = ProviderListBackups(remote, "ok")]_vars

(* C29: while the scheduler is stopped no loop thread is between the       *)
(* backup and the cleanup of a job, and no loop thread ends a create_backup *)
(* or a cleanup_old_backups. (stop() is the only writer of running = False; *)
(* cycle is written by every step of _backup_job.)                         *)
C29_NothingRunsAfterStop ==
    [][~running =>
           /\ cycle' = cycle
           /\ \A t \in 1..Len(threads) : threads[t] # "cleanup"]_vars

(* C30: while the first scheduler is running, a start() or stop() of the   *)
(* second scheduler leaves the job list as it was, so the first job, and   *)
(* with it what get_next_backup_time() returns, stays.                     *)
C30_InstancesIndependent ==
    [][(running /\ peer' # peer) =>
           /\ Len(jobs') >= Len(jobs)
           /\ SubSeq(jobs', 1, Len(jobs)) = jobs
           /\ jobs # <<>> =>
                  GetNextBackupTime(jobs') = GetNextBackupTime(jobs)]_vars

====
